---------------------------- MODULE Spec2Model ----------------------------
(***************************************************************************)
(* Invoicing-System: the HTTP endpoint (api.py), the model adapter         *)
(* (invoice_parser.py) and the upload client (streamlit_app.py).           *)
(*                                                                         *)
(* Texts are modelled at two levels.  A request's `image` is a sequence of *)
(* characters (one-character strings), so that str.split and b64decode are *)
(* computed character by character.  The external model's reply text is a *)
(* sequence of JSON tokens, so that json_repair.loads is computed as a     *)
(* parse.  JSON values and tokens are records with a fixed set of fields.  *)
(***************************************************************************)
EXTENDS Naturals, Integers, Sequences, FiniteSets, TLC

(***************************************************************************)
(* JSON values (what json.loads / json_repair.loads return in Python).     *)
(* t is the Python type, s the text of a str, n the number (a float is     *)
(* held in tenths), keys/a the keys and values of a dict in insertion      *)
(* order, a alone the items of a list.                                     *)
(***************************************************************************)
JNull == [t |-> "null", s |-> "", n |-> 0, keys |-> <<>>, a |-> <<>>]

JBool(b) == [t |-> "bool", s |-> "", n |-> IF b THEN 1 ELSE 0, keys |-> <<>>, a |-> <<>>]

JInt(n) == [t |-> "int", s |-> "", n |-> n, keys |-> <<>>, a |-> <<>>]

JFloat(tenths) == [t |-> "float", s |-> "", n |-> tenths, keys |-> <<>>, a |-> <<>>]

JStr(s) == [t |-> "str", s |-> s, n |-> 0, keys |-> <<>>, a |-> <<>>]

JArr(a) == [t |-> "list", s |-> "", n |-> 0, keys |-> <<>>, a |-> a]

JObj(keys, a) == [t |-> "dict", s |-> "", n |-> 0, keys |-> keys, a |-> a]

\* Python's None: extract_invoice's failure result, and json.loads("null").
None == JNull

\* The test `is not None` in the place of truthiness.
TruthyIsNotNone(v) == v.t # "null"

\* Python truthiness, the test behind `if not json_response` and
\* `if not invoice_data`.
Truthy(v) ==
    CASE v.t = "null" -> FALSE
      [] v.t = "bool" -> v.n = 1
      [] v.t = "int" -> v.n # 0
      [] v.t = "float" -> v.n # 0
      [] v.t = "str" -> v.s # ""
      [] v.t = "list" -> Len(v.a) > 0
      [] v.t = "dict" -> Len(v.a) > 0

\* dict.__contains__ and dict.__getitem__ on a JSON object.
HasKey(v, k) == v.t = "dict" /\ \E i \in 1..Len(v.keys) : v.keys[i] = k

Get(v, k) == v.a[CHOOSE i \in 1..Len(v.keys) : v.keys[i] = k]

\* dict.__setitem__: a repeated key keeps its place and takes the new value.
Put(keys, vals, k, v) ==
    IF \E i \in 1..Len(keys) : keys[i] = k
    THEN [keys |-> keys,
          a |-> [i \in 1..Len(vals) |-> IF keys[i] = k THEN v ELSE vals[i]]]
    ELSE [keys |-> Append(keys, k), a |-> Append(vals, v)]

(***************************************************************************)
(* JSON tokens of a reply text.  k is the kind: "punct" (s one of          *)
(* { } [ ] , :), "str" (a quoted string, s its text), "int", "float" (n in *)
(* tenths), "lit" (s one of null true false) and "word" (stray unquoted    *)
(* text that is no JSON).                                                  *)
(***************************************************************************)
TPunct(c) == [k |-> "punct", s |-> c, n |-> 0]

TStr(s) == [k |-> "str", s |-> s, n |-> 0]

TInt(n) == [k |-> "int", s |-> "", n |-> n]

TFloat(tenths) == [k |-> "float", s |-> "", n |-> tenths]

TLit(c) == [k |-> "lit", s |-> c, n |-> 0]

TWord(c) == [k |-> "word", s |-> c, n |-> 0]

IsPunct(tok, c) == tok.k = "punct" /\ tok.s = c

\* The value of a token that is a JSON scalar.
ScalarOf(tok) ==
    CASE tok.k = "str" -> JStr(tok.s)
      [] tok.k = "int" -> JInt(tok.n)
      [] tok.k = "float" -> JFloat(tok.n)
      [] tok.k = "lit" -> (IF tok.s = "null" THEN JNull ELSE JBool(tok.s = "true"))
      [] OTHER -> JStr(tok.s)

ParseFail(i) == [ok |-> FALSE, v |-> JNull, i |-> i]

ParseOk(v, i) == [ok |-> TRUE, v |-> v, i |-> i]

(***************************************************************************)
(* The parse behind json_repair.loads.  With lenient = FALSE it is the     *)
(* strict grammar of json.loads; with lenient = TRUE it is the repairing   *)
(* parser: a trailing comma, a missing comma or colon, a missing closing   *)
(* bracket at the end of the text and stray tokens are tolerated, an       *)
(* unquoted word inside a container is read as a string (a key or a        *)
(* value), and a value that is missing is the empty string.  i is the position of the next token;   *)
(* the result is [ok, v, i].                                               *)
(***************************************************************************)
RECURSIVE ParseValue(_, _, _)
RECURSIVE ParseMembers(_, _, _, _, _, _)
RECURSIVE ParseElements(_, _, _, _, _)

ParseValue(toks, i, lenient) ==
    IF i > Len(toks)
    THEN (IF lenient THEN ParseOk(JStr(""), i) ELSE ParseFail(i))
    ELSE LET tok == toks[i] IN
         CASE IsPunct(tok, "{") -> ParseMembers(toks, i + 1, lenient, <<>>, <<>>, FALSE)
           [] IsPunct(tok, "[") -> ParseElements(toks, i + 1, lenient, <<>>, FALSE)
           [] tok.k = "punct" /\ tok.s \notin {"{", "["} ->
                (IF lenient THEN ParseOk(JStr(""), i) ELSE ParseFail(i))
           [] tok.k = "word" ->
                (IF lenient THEN ParseOk(JStr(tok.s), i + 1) ELSE ParseFail(i))
           [] OTHER -> ParseOk(ScalarOf(tok), i + 1)

ParseMembers(toks, i, lenient, keys, vals, afterComma) ==
    IF i > Len(toks)
    THEN (IF lenient THEN ParseOk(JObj(keys, vals), i) ELSE ParseFail(i))
    ELSE LET tok == toks[i] IN
         IF IsPunct(tok, "}")
         THEN (IF afterComma /\ ~lenient THEN ParseFail(i)
               ELSE ParseOk(JObj(keys, vals), i + 1))
         ELSE IF \/ tok.k = "str" /\ (afterComma \/ keys = <<>> \/ lenient)
                 \/ tok.k = "word" /\ lenient
         THEN LET colon == i + 1 <= Len(toks) /\ IsPunct(toks[i + 1], ":")
                  r == ParseValue(toks, IF colon THEN i + 2 ELSE i + 1, lenient)
                  kv == Put(keys, vals, tok.s, r.v)
              IN  IF (~colon /\ ~lenient) \/ ~r.ok THEN ParseFail(i)
                  ELSE IF r.i > Len(toks)
                  THEN (IF lenient THEN ParseOk(JObj(kv.keys, kv.a), r.i)
                        ELSE ParseFail(r.i))
                  ELSE IF IsPunct(toks[r.i], ",")
                  THEN ParseMembers(toks, r.i + 1, lenient, kv.keys, kv.a, TRUE)
                  ELSE IF IsPunct(toks[r.i], "}")
                  THEN ParseOk(JObj(kv.keys, kv.a), r.i + 1)
                  ELSE IF lenient
                  THEN ParseMembers(toks, r.i, lenient, kv.keys, kv.a, TRUE)
                  ELSE ParseFail(r.i)
         ELSE IF lenient
         THEN ParseMembers(toks, i + 1, lenient, keys, vals, afterComma)
         ELSE ParseFail(i)

ParseElements(toks, i, lenient, items, afterComma) ==
    IF i > Len(toks)
    THEN (IF lenient THEN ParseOk(JArr(items), i) ELSE ParseFail(i))
    ELSE LET tok == toks[i] IN
         IF IsPunct(tok, "]")
         THEN (IF afterComma /\ ~lenient THEN ParseFail(i)
               ELSE ParseOk(JArr(items), i + 1))
         ELSE IF tok.k = "punct" /\ tok.s \in {",", ":", "}"}
         THEN (IF lenient THEN ParseElements(toks, i + 1, lenient, items, afterComma)
               ELSE ParseFail(i))
         ELSE LET r == ParseValue(toks, i, lenient)
                  got == Append(items, r.v)
              IN  IF ~r.ok THEN ParseFail(i)
                  ELSE IF r.i > Len(toks)
                  THEN (IF lenient THEN ParseOk(JArr(got), r.i) ELSE ParseFail(r.i))
                  ELSE IF IsPunct(toks[r.i], ",")
                  THEN ParseElements(toks, r.i + 1, lenient, got, TRUE)
                  ELSE IF IsPunct(toks[r.i], "]")
                  THEN ParseOk(JArr(got), r.i + 1)
                  ELSE IF lenient
                  THEN ParseElements(toks, r.i, lenient, got, TRUE)
                  ELSE ParseFail(r.i)

\* json.loads: the whole text is one JSON value.
json_loads(toks) ==
    LET r == ParseValue(toks, 1, FALSE)
    IN  IF r.ok /\ r.i = Len(toks) + 1 THEN r ELSE ParseFail(r.i)

\* The position of the first "{" or "[" at or after i, or 0.
RECURSIVE FirstOpen(_, _)
FirstOpen(toks, i) ==
    IF i > Len(toks) THEN 0
    ELSE IF IsPunct(toks[i], "{") \/ IsPunct(toks[i], "[") THEN i
    ELSE FirstOpen(toks, i + 1)

\* json_repair.loads: json.loads when the text is valid JSON; otherwise the
\* repairing parser, which skips to the first object or list of the text and
\* answers the empty string when there is none.
json_repair_loads(toks) ==
    LET strict == json_loads(toks)
        start == FirstOpen(toks, 1)
    IN  IF strict.ok THEN strict.v
        ELSE IF start = 0 THEN JStr("")
        ELSE ParseValue(toks, start, TRUE).v


(***************************************************************************)
(* The Invoice / Product schema (the pydantic classes).  A field with      *)
(* `...` is required; `products` has the default [].  Keys the classes do  *)
(* not name are ignored, as pydantic does by default.                      *)
(***************************************************************************)
IsNumber(v) == v.t \in {"int", "float"}

Product(v) ==
    /\ v.t = "dict"
    /\ HasKey(v, "Item_ID") /\ Get(v, "Item_ID").t = "str"
    /\ Len(Get(v, "Item_ID").s) >= 5 /\ Len(Get(v, "Item_ID").s) <= 12
    /\ HasKey(v, "Item_Description") /\ Get(v, "Item_Description").t = "str"
    /\ Len(Get(v, "Item_Description").s) >= 5
    /\ HasKey(v, "Unit_Price") /\ IsNumber(Get(v, "Unit_Price"))
    /\ HasKey(v, "Quantity") /\ Get(v, "Quantity").t = "int"
    /\ HasKey(v, "Tax") /\ IsNumber(Get(v, "Tax"))
    /\ HasKey(v, "Total_Amount") /\ IsNumber(Get(v, "Total_Amount"))

InvoiceData(v) ==
    /\ v.t = "dict"
    /\ HasKey(v, "date")
    /\ LET d == Get(v, "date")
       IN  d.t = "null" \/ (d.t = "str" /\ Len(d.s) >= 8 /\ Len(d.s) <= 10)
    /\ HasKey(v, "products") =>
         LET p == Get(v, "products")
         IN  p.t = "list" /\ \A i \in 1..Len(p.a) : Product(p.a[i])

InvoiceResponse(v) ==
    v.t = "dict" /\ HasKey(v, "data") /\ InvoiceData(Get(v, "data"))

(***************************************************************************)
(* Characters and base64.  A text is a sequence of one-character strings.  *)
(***************************************************************************)
B64Table ==
    <<
       "A", "B", "C", "D", "E", "F", "G", "H", "I", "J", "K", "L", "M",
       "N", "O", "P", "Q", "R", "S", "T", "U", "V", "W", "X", "Y", "Z",
       "a", "b", "c", "d", "e", "f", "g", "h", "i", "j", "k", "l", "m",
       "n", "o", "p", "q", "r", "s", "t", "u", "v", "w", "x", "y", "z",
       "0", "1", "2", "3", "4", "5", "6", "7", "8", "9", "+", "/"
    >>

B64Alphabet == {B64Table[i] : i \in 1..64}

B64Pad == "="

\* A character outside ASCII: str.encode("ascii") rejects it.
NonAscii == {"é"}

B64Index(c) == (CHOOSE i \in 1..64 : B64Table[i] = c) - 1

DecodeOk(data) == [ok |-> TRUE, exc |-> "", data |-> data]

DecodeError(exc) == [ok |-> FALSE, exc |-> exc, data |-> <<>>]

\* binascii.a2b_base64 without strict mode: characters outside the alphabet
\* are discarded, a complete pad sequence ends the input, and the data must
\* end on a quad boundary.
RECURSIVE a2b_base64(_, _, _, _, _, _)
a2b_base64(s, i, quad_pos, leftchar, pads, out) ==
    IF i > Len(s)
    THEN (IF quad_pos = 0 THEN DecodeOk(out)
          ELSE IF quad_pos = 1
          THEN DecodeError("Invalid base64-encoded string")
          ELSE DecodeError("Incorrect padding"))
    ELSE LET c == s[i] IN
         IF c = B64Pad
         THEN (IF quad_pos >= 2 /\ quad_pos + pads + 1 >= 4 THEN DecodeOk(out)
               ELSE a2b_base64(s, i + 1, quad_pos, leftchar,
                               IF quad_pos >= 2 THEN pads + 1 ELSE pads, out))
         ELSE IF c \notin B64Alphabet
         THEN a2b_base64(s, i + 1, quad_pos, leftchar, pads, out)
         ELSE LET v == B64Index(c) IN
              CASE quad_pos = 0 -> a2b_base64(s, i + 1, 1, v, 0, out)
                [] quad_pos = 1 ->
                     a2b_base64(s, i + 1, 2, v % 16, 0,
                                Append(out, (leftchar * 4) + (v \div 16)))
                [] quad_pos = 2 ->
                     a2b_base64(s, i + 1, 3, v % 4, 0,
                                Append(out, (leftchar * 16) + (v \div 4)))
                [] quad_pos = 3 ->
                     a2b_base64(s, i + 1, 0, 0, 0, Append(out, (leftchar * 64) + v))

\* base64.b64decode(img_b64) on a str: the text is encoded to ASCII first.
b64decode(s) ==
    IF \E i \in 1..Len(s) : s[i] \in NonAscii
    THEN DecodeError("string argument should contain only ASCII characters")
    ELSE a2b_base64(s, 1, 0, 0, 0, <<>>)

\* base64.b64encode(img_bytes).decode(): three bytes give four characters,
\* a last group of one or two bytes is padded with "=".
RECURSIVE b64encode(_)
b64encode(bytes) ==
    IF Len(bytes) = 0 THEN <<>>
    ELSE IF Len(bytes) = 1
    THEN <<B64Table[(bytes[1] \div 4) + 1], B64Table[((bytes[1] % 4) * 16) + 1],
           B64Pad, B64Pad>>
    ELSE IF Len(bytes) = 2
    THEN <<B64Table[(bytes[1] \div 4) + 1],
           B64Table[((bytes[1] % 4) * 16) + (bytes[2] \div 16) + 1],
           B64Table[((bytes[2] % 16) * 4) + 1], B64Pad>>
    ELSE <<B64Table[(bytes[1] \div 4) + 1],
           B64Table[((bytes[1] % 4) * 16) + (bytes[2] \div 16) + 1],
           B64Table[((bytes[2] % 16) * 4) + (bytes[3] \div 64) + 1],
           B64Table[(bytes[3] % 64) + 1]>>
         \o b64encode(SubSeq(bytes, 4, Len(bytes)))

\* str.split(","): the pieces between the commas, in order (always at least
\* one piece).
RECURSIVE str_split(_, _, _)
str_split(s, i, piece) ==
    IF i > Len(s) THEN <<piece>>
    ELSE IF s[i] = "," THEN <<piece>> \o str_split(s, i + 1, <<>>)
    ELSE str_split(s, i + 1, Append(piece, s[i]))

\* api.py line 19 with the mistake of taking the piece after the FIRST comma.
b64_image_first(image) ==
    IF \E i \in 1..Len(image) : image[i] = ","
    THEN str_split(image, 1, <<>>)[2]
    ELSE image

\* api.py line 19:
\* request.image.split(",")[-1] if "," in request.image else request.image
b64_image(image) ==
    IF \E i \in 1..Len(image) : image[i] = ","
    THEN LET pieces == str_split(image, 1, <<>>) IN pieces[Len(pieces)]
    ELSE image

\* The prefix the upload client puts before the base64 payload.
DataUriPrefix ==
    <<
       "d", "a", "t", "a", ":", "i", "m", "a", "g", "e", "/", "j", "p",
       "e", "g", ";", "b", "a", "s", "e", "6", "4", ","
    >>

(***************************************************************************)
(* Bounds of the model.                                                    *)
(***************************************************************************)
\* Longest request `image` text made of arbitrary characters.
MaxImageLen == 4

\* Most product lines in an invoice the model service replies with.
MaxProducts == 2

\* Longest uploaded file, in bytes.
MaxFileLen == 2

(***************************************************************************)
(* The environment: request texts, and what the external model service may *)
(* answer.                                                                 *)
(***************************************************************************)
\* Request slots: two requests can be in flight at once.
Requests == {"r1", "r2"}

\* Characters of a request text: a base64 character, the pad, the comma that
\* ends a data-URI prefix (and that base64 discards), a non-ASCII character.
Chars == {"Q", "=", ",", "é"}

RECURSIVE TextsUpTo(_)
TextsUpTo(n) ==
    IF n = 0 THEN {<<>>}
    ELSE LET shorter == TextsUpTo(n - 1)
         IN  shorter \cup {Append(t, c) : t \in shorter, c \in Chars}

\* Uploaded files: their bytes.
FileBytes == {0, 255}

RECURSIVE FilesUpTo(_)
FilesUpTo(n) ==
    IF n = 0 THEN {<<>>}
    ELSE LET shorter == FilesUpTo(n - 1)
         IN  shorter \cup {Append(f, b) : f \in shorter, b \in FileBytes}

Files == FilesUpTo(MaxFileLen)

\* streamlit_app.py lines 67-69: the image of the upload page's payload.
payload_image(img_bytes) == DataUriPrefix \o b64encode(img_bytes)

\* The request texts: every short text, and the data URIs of the files.
Images == TextsUpTo(MaxImageLen) \cup {payload_image(f) : f \in Files}

\* json.dumps, as a model service that answers well-formed JSON writes it.
RECURSIVE Serialize(_)
RECURSIVE SerializeItems(_, _, _)
Serialize(v) ==
    CASE v.t = "null" -> <<TLit("null")>>
      [] v.t = "bool" -> <<TLit(IF v.n = 1 THEN "true" ELSE "false")>>
      [] v.t = "int" -> <<TInt(v.n)>>
      [] v.t = "float" -> <<TFloat(v.n)>>
      [] v.t = "str" -> <<TStr(v.s)>>
      [] v.t = "list" -> <<TPunct("[")>> \o SerializeItems(v, 1, FALSE) \o <<TPunct("]")>>
      [] v.t = "dict" -> <<TPunct("{")>> \o SerializeItems(v, 1, TRUE) \o <<TPunct("}")>>

SerializeItems(v, i, withKeys) ==
    IF i > Len(v.a) THEN <<>>
    ELSE (IF i > 1 THEN <<TPunct(",")>> ELSE <<>>)
         \o (IF withKeys THEN <<TStr(v.keys[i]), TPunct(":")>> ELSE <<>>)
         \o Serialize(v.a[i])
         \o SerializeItems(v, i + 1, withKeys)

ProductKeys ==
    <<"Item_ID", "Item_Description", "Unit_Price", "Quantity", "Tax", "Total_Amount">>

ProductA ==
    JObj(ProductKeys, <<JStr("AB-1001"), JStr("Brake pad"), JFloat(105), JInt(2),
                        JFloat(32), JFloat(242)>>)

ProductB ==
    JObj(ProductKeys, <<JStr("ZX-20-77"), JStr("Oil filter"), JInt(40), JInt(1),
                        JInt(6), JInt(46)>>)

RECURSIVE ProductLists(_)
ProductLists(n) ==
    IF n = 0 THEN {<<>>}
    ELSE LET shorter == ProductLists(n - 1)
         IN  shorter \cup {Append(ps, p) : ps \in shorter, p \in {ProductA, ProductB}}

Invoice(date, products) ==
    JObj(<<"data">>, <<JObj(<<"date", "products">>, <<date, JArr(products)>>)>>)

\* Replies that conform to the schema.
ConformantValues ==
    {Invoice(d, ps) : d \in {JNull, JStr("01-01-2024")}, ps \in ProductLists(MaxProducts)}
    \cup {JObj(<<"data">>, <<JObj(<<"date">>, <<JNull>>)>>)}

\* Replies that are JSON but not of the schema.
NonConformantValues ==
    { Invoice(JStr("1-1"), <<>>),
      Invoice(JNull, <<JObj(<<"Item_ID">>, <<JStr("A")>>)>>),
      JObj(<<"data">>, <<JArr(<<JInt(1)>>)>>),
      JObj(<<"data">>, <<JObj(<<"date", "products">>, <<JNull, JStr("none")>>)>>),
      JObj(<<"invoice">>, <<JInt(1)>>),
      JArr(<<JInt(1)>>), JInt(5), JStr("abc"), JBool(TRUE) }

\* Replies that are JSON and falsy in Python.
FalsyValues ==
    {JObj(<<>>, <<>>), JArr(<<>>), JStr(""), JInt(0), JFloat(0), JBool(FALSE), JNull}

\* A comma put before the last token (the closing bracket).
TrailingComma(toks) ==
    SubSeq(toks, 1, Len(toks) - 1) \o <<TPunct(",")>> \o <<toks[Len(toks)]>>

\* The text cut before its last token.
Truncated(toks) == SubSeq(toks, 1, Len(toks) - 1)

\* Prose around the JSON.
Chatty(toks) == <<TWord("Here"), TWord("you"), TWord("go")>> \o toks \o <<TWord("Done")>>

\* Values whose texts also come damaged.
DamagedValues ==
    { Invoice(JStr("01-01-2024"), <<>>), Invoice(JNull, <<ProductA>>),
      Invoice(JStr("01-01-2024"), <<ProductB, ProductA>>),
      JObj(<<>>, <<>>), JArr(<<>>), JObj(<<"invoice">>, <<JInt(1)>>) }

\* Texts that are no JSON: empty, prose, stray punctuation, and prose with
\* an opening bracket in it.
GarbageTexts ==
    { <<>>, <<TWord("Sorry")>>, <<TWord("I"), TWord("cannot"), TWord("read")>>,
      <<TPunct(",")>>, <<TPunct("}"), TWord("oops")>>,
      <<TWord("Sorry"), TPunct("["), TWord("unreadable")>>,
      <<TWord("see"), TPunct("{"), TWord("note"), TPunct("}")>> }

ReplyTexts ==
    {Serialize(v) : v \in ConformantValues \cup NonConformantValues \cup FalsyValues}
    \cup {TrailingComma(Serialize(v)) : v \in DamagedValues}
    \cup {Truncated(Serialize(v)) : v \in DamagedValues}
    \cup {Chatty(Serialize(v)) : v \in DamagedValues}
    \cup GarbageTexts

\* What client.models.generate_content may raise.
ModelErrors == {"429 RESOURCE_EXHAUSTED", "400 API key not valid"}

\* An outcome of the external call: the reply's text, a reply whose text is
\* None (no candidate), or an exception.
TextReply(toks) == [kind |-> "text", text |-> toks, exc |-> ""]

NoTextReply == [kind |-> "notext", text |-> <<>>, exc |-> ""]

Raised(exc) == [kind |-> "raise", text |-> <<>>, exc |-> exc]

NoOutcome == [kind |-> "none", text |-> <<>>, exc |-> ""]

Outcomes ==
    {TextReply(t) : t \in ReplyTexts} \cup {NoTextReply} \cup {Raised(e) : e \in ModelErrors}

(***************************************************************************)
(* State.  Every variable but `parser` and the ui_ ones is indexed by the  *)
(* request slot and holds what is local to that request's handler.         *)
(***************************************************************************)
VARIABLES
    parser,        \* the module-level InvoiceParser of api.py: api_key, client, model
    pc,            \* "idle", "calling" (blocked in generate_content), "responded"
    image,         \* request.image
    b64_images,    \* the list extract_invoice was called with
    sent,          \* the image parts of the contents sent to the model service
    calls,         \* calls of client.models.generate_content made for the request
    reply,         \* the outcome of the external call
    result,        \* what extract_invoice returned
    response,      \* the HTTP response: status, detail, body
    log,           \* what the request wrote to the server log: msg, exc
    ui_pc,         \* the upload page: "idle", "posting" (POST not yet at the server),
                   \* "waiting" (for the response), "stopped", "rendered", "crashed"
    uploaded_file, \* the bytes of the uploaded file
    ui_status,     \* the status of the response the page got, 0 when it got none
    shown          \* what the page has rendered for this upload, in order

vars ==
    <<parser, pc, image, b64_images, sent, calls, reply, result, response, log,
      ui_pc, uploaded_file, ui_status, shown>>

server_vars == <<pc, image, b64_images, sent, calls, reply, result, response, log>>

ui_vars == <<ui_pc, uploaded_file, ui_status, shown>>

NoResponse == [status |-> 0, detail |-> "", body |-> None]

\* InvoiceParser.__init__ with the key found in the environment.
InvoiceParser ==
    [api_key |-> "GEMINI_API_KEY", client |-> "genai.Client", model |-> "gemini-2.5-flash"]

Init ==
    /\ parser = InvoiceParser
    /\ pc = [r \in Requests |-> "idle"]
    /\ image = [r \in Requests |-> <<>>]
    /\ b64_images = [r \in Requests |-> <<>>]
    /\ sent = [r \in Requests |-> <<>>]
    /\ calls = [r \in Requests |-> 0]
    /\ reply = [r \in Requests |-> NoOutcome]
    /\ result = [r \in Requests |-> None]
    /\ response = [r \in Requests |-> NoResponse]
    /\ log = [r \in Requests |-> <<>>]
    /\ ui_pc = "idle"
    /\ uploaded_file = <<>>
    /\ ui_status = 0
    /\ shown = <<>>

(***************************************************************************)
(* api.py: process_invoice.                                                *)
(***************************************************************************)
LogEntry(msg, exc) == [msg |-> msg, exc |-> exc]

HTTPException(status_code, detail) == [status_code |-> status_code, detail |-> detail]

\* str(e) of an HTTPException: "<status_code>: <detail>".
HTTPExceptionStr(e) == ToString(e.status_code) \o ": " \o e.detail

\* Lines 26-28 with the mistake of answering the exception's own text.
except_handler_leak(e) == [status |-> 500, detail |-> HTTPExceptionStr(e), body |-> None]

\* Lines 26-28: `except Exception as e` logs, and raises the 500 the client
\* gets, whatever e is.
except_handler(e) == [status |-> 500, detail |-> "Internal server error", body |-> None]

\* Line 25 with the mistake of returning the invoice without its envelope.
return_invoice_data_unwrapped(invoice_data) ==
    [status |-> 200, detail |-> "",
     body |-> IF HasKey(invoice_data, "data") THEN Get(invoice_data, "data")
              ELSE invoice_data]

\* Line 25: return invoice_data.
return_invoice_data(invoice_data) == [status |-> 200, detail |-> "", body |-> invoice_data]

\* Lines 23-28.  The HTTPException of line 24 is raised inside the try, and
\* HTTPException is an Exception: the handler of line 26 catches it.
process_invoice_response(invoice_data) ==
    IF ~Truthy(invoice_data)
    THEN except_handler(HTTPException(500, "Invoice processing failed"))
    ELSE return_invoice_data(invoice_data)

\* Line 27: logging.exception in the handler.
process_invoice_log(invoice_data) ==
    IF ~Truthy(invoice_data)
    THEN <<LogEntry("An error occurred during processing invoices in endpoint.",
                    HTTPExceptionStr(HTTPException(500, "Invoice processing failed")))>>
    ELSE <<>>

(***************************************************************************)
(* invoice_parser.py: InvoiceParser.extract_invoice.                       *)
(***************************************************************************)
\* Lines 120-129: every image is decoded; the first failure ends the loop.
decode_images(imgs) ==
    LET ds == [i \in 1..Len(imgs) |-> b64decode(imgs[i])]
        bad == {i \in 1..Len(imgs) : ~ds[i].ok}
    IN  IF bad = {} THEN [ok |-> TRUE, exc |-> "", parts |-> [i \in 1..Len(imgs) |-> ds[i].data]]
        ELSE [ok |-> FALSE, parts |-> <<>>,
              exc |-> ds[CHOOSE i \in bad : \A j \in bad : i <= j].exc]

\* Lines 121-139 with `parts` kept in one place shared by all requests.
SendPartsShared(r, parts) == [q \in Requests |-> parts]

\* Lines 121-139: `parts` and `contents` are locals of the call.
SendParts(r, parts) == [sent EXCEPT ![r] = parts]

\* json_repair.loads of every text the model service may answer, computed
\* once.
ParsedReplies == [t \in ReplyTexts |-> json_repair_loads(t)]

\* Lines 88-94: parse_json.
parse_json(text) == ParsedReplies[text]

\* Lines 169-179 without the test of line 169.
json_response_unchecked(json_response) == [result |-> json_response, log |-> <<>>]

\* Lines 169-179: a falsy parse is a failure, anything else is returned.
json_response_result(json_response) ==
    IF ~Truthy(json_response)
    THEN [result |-> None,
          log |-> <<LogEntry("No valid JSON could be parsed from Gemini response.", "")>>]
    ELSE [result |-> json_response, log |-> <<>>]

\* Lines 153-179: what extract_invoice returns and logs once the external
\* call has ended with outcome o.
extract_invoice_result(o) ==
    CASE o.kind = "raise" ->
           [result |-> None, log |-> <<LogEntry("Gemini API call failed.", o.exc)>>]
      [] o.kind = "notext" ->
           [result |-> None,
            log |-> <<LogEntry("Exception during parsing JSON from Gemini output.",
                               "'NoneType' object is not subscriptable")>>]
      [] OTHER -> json_response_result(parse_json(o.text))

(***************************************************************************)
(* Actions of the server.                                                  *)
(***************************************************************************)
\* A request with body {"image": img} arrives in slot r and its handler runs
\* to its end, or to the external call when every image decodes.
process_invoice(r, img) ==
    /\ pc[r] = "idle"
    /\ LET b64 == b64_image(img)
           d == decode_images(<<b64>>)
       IN  /\ image' = [image EXCEPT ![r] = img]
           /\ b64_images' = [b64_images EXCEPT ![r] = <<b64>>]
           /\ reply' = [reply EXCEPT ![r] = NoOutcome]
           /\ IF d.ok
              THEN /\ sent' = SendParts(r, d.parts)
                   /\ calls' = [calls EXCEPT ![r] = 1]
                   /\ pc' = [pc EXCEPT ![r] = "calling"]
                   /\ result' = [result EXCEPT ![r] = None]
                   /\ response' = [response EXCEPT ![r] = NoResponse]
                   /\ log' = [log EXCEPT ![r] = <<>>]
              ELSE /\ sent' = [sent EXCEPT ![r] = <<>>]
                   /\ calls' = [calls EXCEPT ![r] = 0]
                   /\ pc' = [pc EXCEPT ![r] = "responded"]
                   /\ result' = [result EXCEPT ![r] = None]
                   /\ response' = [response EXCEPT ![r] = process_invoice_response(None)]
                   /\ log' = [log EXCEPT ![r] =
                         <<LogEntry("Failed to decode images. Ensure base64 input is valid.",
                                    d.exc)>> \o process_invoice_log(None)]
    /\ UNCHANGED parser

\* The handler's second half: the external call has ended with outcome o.
finish(r, o) ==
    /\ pc[r] = "calling"
    /\ LET x == extract_invoice_result(o)
       IN  /\ reply' = [reply EXCEPT ![r] = o]
           /\ result' = [result EXCEPT ![r] = x.result]
           /\ response' = [response EXCEPT ![r] = process_invoice_response(x.result)]
           /\ log' = [log EXCEPT ![r] = x.log \o process_invoice_log(x.result)]
           /\ pc' = [pc EXCEPT ![r] = "responded"]
    /\ UNCHANGED <<parser, image, b64_images, sent, calls>>

\* The slot that serves the upload page's POST.
UiRequest == "r1"

\* The response has gone out (or its connection was closed): the handler's
\* locals are gone and the slot is free again.
close(r) ==
    /\ pc[r] = "responded"
    /\ ~(ui_pc = "waiting" /\ r = UiRequest)
    /\ pc' = [pc EXCEPT ![r] = "idle"]
    /\ image' = [image EXCEPT ![r] = <<>>]
    /\ b64_images' = [b64_images EXCEPT ![r] = <<>>]
    /\ sent' = [sent EXCEPT ![r] = <<>>]
    /\ calls' = [calls EXCEPT ![r] = 0]
    /\ reply' = [reply EXCEPT ![r] = NoOutcome]
    /\ result' = [result EXCEPT ![r] = None]
    /\ response' = [response EXCEPT ![r] = NoResponse]
    /\ log' = [log EXCEPT ![r] = <<>>]
    /\ UNCHANGED parser

\* Lines 153-163 with a second attempt after a failed call.
generate_content_raises_retry(r) ==
    /\ pc[r] = "calling"
    /\ IF calls[r] < 2
       THEN /\ calls' = [calls EXCEPT ![r] = calls[r] + 1]
            /\ UNCHANGED <<parser, pc, image, b64_images, sent, reply, result, response, log>>
       ELSE \E e \in ModelErrors : finish(r, Raised(e))

\* Lines 153-163: client.models.generate_content raises.
generate_content_raises(r) == \E e \in ModelErrors : finish(r, Raised(e))

\* Lines 155-179: client.models.generate_content returns a reply.
generate_content_returns(r) ==
    \E o \in {TextReply(t) : t \in ReplyTexts} \cup {NoTextReply} : finish(r, o)

(***************************************************************************)
(* streamlit_app.py: the upload page.  One run of the script is blocked in *)
(* requests.post between ui_upload and the end of the POST.                *)
(***************************************************************************)
\* The body of an HTTP response: the handler's return value, or the
\* {"detail": ...} of an HTTPException.
HttpBody(resp) ==
    IF resp.status = 200 THEN resp.body ELSE JObj(<<"detail">>, <<JStr(resp.detail)>>)

\* Line 77 left out: no status makes the page stop.
raise_for_status_never(status) == FALSE

\* Line 77: response.raise_for_status() raises for a 4xx or 5xx status.
raise_for_status(status) == status >= 400

\* Lines 77-81: the try block after the POST returned.  ok is FALSE when the
\* except clause ran; data is response.json().get("data", {}).
response_data(resp) ==
    LET body == HttpBody(resp) IN
    IF raise_for_status(resp.status) \/ body.t # "dict"
    THEN [ok |-> FALSE, data |-> None]
    ELSE [ok |-> TRUE,
          data |-> IF HasKey(body, "data") THEN Get(body, "data") ELSE JObj(<<>>, <<>>)]

\* Lines 80-81: st.error, st.stop.
page_stopped == <<"error">>

\* Lines 84-113: what the page renders from data, and whether the script
\* got to its end.  data.get on a value that is no dict, and a DataFrame of
\* a value that is no list, raise outside the try.
render(data) ==
    IF data.t # "dict" THEN [pc |-> "crashed", shown |-> <<"details_header">>]
    ELSE LET products == IF HasKey(data, "products") THEN Get(data, "products")
                         ELSE JArr(<<>>)
         IN  IF Truthy(products) /\ products.t # "list"
             THEN [pc |-> "crashed", shown |-> <<"details_header", "date">>]
             ELSE [pc |-> "rendered",
                   shown |-> <<"details_header", "date",
                               IF Truthy(products) THEN "table" ELSE "no_products",
                               "image_header", "image">>]

\* Lines 63-76: a file is uploaded; the script encodes it and posts.
ui_upload(file) ==
    /\ ui_pc # "posting" /\ ui_pc # "waiting"
    /\ uploaded_file' = file
    /\ ui_pc' = "posting"
    /\ ui_status' = 0
    /\ shown' = <<>>
    /\ UNCHANGED <<parser, server_vars>>

\* The POST reaches the server, which starts its handler.
post_delivered ==
    /\ ui_pc = "posting"
    /\ process_invoice(UiRequest, payload_image(uploaded_file))
    /\ ui_pc' = "waiting"
    /\ UNCHANGED <<uploaded_file, ui_status, shown>>

\* Lines 72-81: requests.post raises ConnectionError; the server saw nothing.
post_connection_error ==
    /\ ui_pc = "posting"
    /\ ui_pc' = "stopped"
    /\ shown' = page_stopped
    /\ UNCHANGED <<parser, server_vars, uploaded_file, ui_status>>

\* Lines 72-81: requests.post raises Timeout after 60 seconds; the server
\* may still be working on the request.
post_timeout ==
    /\ ui_pc \in {"posting", "waiting"}
    /\ ui_pc' = "stopped"
    /\ shown' = page_stopped
    /\ UNCHANGED <<parser, server_vars, uploaded_file, ui_status>>

\* Lines 72-113: requests.post returns the server's response and the script
\* runs to its end.
post_returns ==
    /\ ui_pc = "waiting"
    /\ pc[UiRequest] = "responded"
    /\ LET resp == response[UiRequest]
           got == response_data(resp)
           page == render(got.data)
       IN  /\ ui_status' = resp.status
           /\ IF got.ok
              THEN ui_pc' = page.pc /\ shown' = page.shown
              ELSE ui_pc' = "stopped" /\ shown' = page_stopped
    /\ UNCHANGED <<parser, server_vars, uploaded_file>>

(***************************************************************************)
(* Specifications.                                                         *)
(***************************************************************************)
\* One request at a time, any image text, any outcome of the external call.
Next ==
    \/ \E img \in Images : process_invoice("r1", img) /\ UNCHANGED ui_vars
    \/ generate_content_returns("r1") /\ UNCHANGED ui_vars
    \/ generate_content_raises("r1") /\ UNCHANGED ui_vars
    \/ close("r1") /\ UNCHANGED ui_vars

Spec == Init /\ [][Next]_vars

\* Requests of the concurrent runs.
ConcImages ==
    { <<>>, <<"Q", "Q">>, <<"é">>,
      <<"Q", "Q", "Q", "Q">>, <<"Q", "Q", "Q", "=">>, <<",", "Q", "Q", "=", "=">>,
      <<"Q", ",", "Q", "Q", "Q", "Q">> }

\* A deterministic stub of the model service: its outcome is a function of
\* the image parts it is sent.
StubOutcome(parts) ==
    LET n == IF Len(parts) = 0 THEN 0 ELSE Len(parts[1]) IN
    CASE n = 0 -> Raised("400 API key not valid")
      [] n = 1 -> TextReply(<<TWord("Sorry")>>)
      [] n = 2 -> TextReply(TrailingComma(Serialize(Invoice(JNull, <<ProductA>>))))
      [] OTHER -> TextReply(Serialize(Invoice(JStr("01-01-2024"), <<ProductB, ProductA>>)))

\* Lines 155-179 against the stub.
generate_content_stub(r) == finish(r, StubOutcome(sent[r]))

\* Two requests in flight, served by the one parser, against the stub.
NextConc ==
    \/ \E r \in Requests, img \in ConcImages : process_invoice(r, img) /\ UNCHANGED ui_vars
    \/ \E r \in Requests : generate_content_stub(r) /\ UNCHANGED ui_vars
    \/ \E r \in Requests : close(r) /\ UNCHANGED ui_vars

SpecConc == Init /\ [][NextConc]_vars

\* The upload page in front of the server.
NextUI ==
    \/ \E file \in Files : ui_upload(file)
    \/ post_delivered
    \/ post_connection_error
    \/ post_timeout
    \/ post_returns
    \/ generate_content_returns(UiRequest) /\ UNCHANGED ui_vars
    \/ generate_content_raises(UiRequest) /\ UNCHANGED ui_vars
    \/ close(UiRequest) /\ UNCHANGED ui_vars

SpecUI == Init /\ [][NextUI]_vars

(***************************************************************************)
(* Properties.                                                             *)
(***************************************************************************)
Responded(r) == pc[r] = "responded"

\* The images the adapter was given all decode.
Decoded(r) == \A i \in 1..Len(b64_images[r]) : b64decode(b64_images[r][i]).ok

GenericDetails == {"Invoice processing failed", "Internal server error"}

\* C1: whenever extract_invoice returned a null or empty result, the response
\* is HTTP 500 with the detail "Invoice processing failed".
C1_NullResultDetail ==
    \A r \in Requests :
        Responded(r) /\ result[r] \in FalsyValues =>
            response[r].status = 500 /\ response[r].detail = "Invoice processing failed"

\* C2: when the image fails base64 decoding, or the external call raises, or
\* the reply is empty text or non-JSON garbage, extract_invoice returns None
\* and the response is HTTP 500, never 200.
C2_FailureKindsGiveNoneAnd500 ==
    \A r \in Requests :
        Responded(r) /\ ( \/ ~Decoded(r)
                          \/ reply[r].kind = "raise"
                          \/ (reply[r].kind = "text" /\ reply[r].text \in GarbageTexts) ) =>
            result[r] = None /\ response[r].status = 500

\* The texts of the schema-conformant values, as a well-behaved model service
\* writes them.
ConformantTexts == [v \in ConformantValues |-> Serialize(v)]

\* The products of a {"data": ...} value; None when it names none.
ProductsOf(v) ==
    IF HasKey(v, "data") /\ HasKey(Get(v, "data"), "products")
    THEN Get(Get(v, "data"), "products")
    ELSE None

\* C3: for a valid base64 image and a reply that is the well-formed text of a
\* schema-conformant value, the response is HTTP 200 with a `data` object
\* whose products are the reply's products, field for field and in order;
\* nothing is added, dropped or altered.
C3_ConformantReplyReturnedAsIs ==
    \A r \in Requests : \A v \in ConformantValues :
        Responded(r) /\ Decoded(r) /\ reply[r] = TextReply(ConformantTexts[v]) =>
            /\ response[r].status = 200
            /\ HasKey(response[r].body, "data")
            /\ ProductsOf(response[r].body) = ProductsOf(v)
            /\ response[r].body = v

C3_Witness ==
    \E r \in Requests :
        /\ Responded(r)
        /\ image[r] = payload_image(<<255, 0>>)
        /\ sent[r] = <<(<<255, 0>>)>>
        /\ reply[r] = TextReply(Serialize(Invoice(JStr("01-01-2024"), <<ProductB, ProductA>>)))
        /\ response[r].status = 200
        /\ ProductsOf(response[r].body) = JArr(<<ProductB, ProductA>>)

\* C4: whenever extract_invoice returns a success, and whenever the response
\* is HTTP 200, the result is {"data": Invoice} conforming to the schema; a
\* reply that is JSON but not of the schema is not returned as a success.
C4_SuccessConformsToSchema ==
    \A r \in Requests :
        Responded(r) /\ (result[r] # None \/ response[r].status = 200) =>
            InvoiceResponse(result[r])

\* C5: the adapter is called with a list of exactly one text: the part of
\* `image` after its last comma when it has a comma, else `image` itself.
C5_PayloadAfterLastComma ==
    \A r \in Requests :
        pc[r] # "idle" =>
            /\ Len(b64_images[r]) = 1
            /\ LET img == image[r]
                   commas == {i \in 1..Len(img) : img[i] = ","}
               IN  IF commas = {} THEN b64_images[r][1] = img
                   ELSE \E i \in commas :
                           /\ \A j \in commas : j <= i
                           /\ b64_images[r][1] = SubSeq(img, i + 1, Len(img))

C5_Witness ==
    \E r \in Requests :
        /\ pc[r] # "idle"
        /\ image[r] = DataUriPrefix \o <<"A", "A", "=", "=">>
        /\ b64_images[r] = <<(<<"A", "A", "=", "=">>)>>

\* C6: every failure response is HTTP 500 with one of the two fixed generic
\* details; the text of the exception that was logged is never the detail.
C6_FailureDetailIsGeneric ==
    \A r \in Requests :
        Responded(r) /\ response[r].status # 200 =>
            /\ response[r].status = 500
            /\ response[r].detail \in GenericDetails
            /\ \A i \in 1..Len(log[r]) :
                   log[r][i].exc # "" => response[r].detail # log[r][i].exc

C6_Witness ==
    \E r \in Requests :
        /\ Responded(r)
        /\ reply[r] = Raised("400 API key not valid")
        /\ \E i \in 1..Len(log[r]) : log[r][i].exc = "400 API key not valid"
        /\ response[r].status = 500

\* C7: no retry.  A request makes exactly one external call when its images
\* decode and none when they do not; after a failed call or an unparseable
\* reply it ends in failure with that one call.
C7_AtMostOneCall ==
    \A r \in Requests :
        /\ pc[r] = "calling" => calls[r] = 1
        /\ Responded(r) => calls[r] = (IF Decoded(r) THEN 1 ELSE 0)
        /\ Responded(r) /\ (reply[r].kind = "raise" \/ result[r] = None) =>
               calls[r] <= 1 /\ response[r].status = 500

C7_Witness ==
    \E r \in Requests :
        Responded(r) /\ reply[r].kind = "raise" /\ calls[r] = 1 /\ response[r].status = 500

\* C8: with a deterministic stub, two requests with the same image get the
\* same response, whatever else was served before, between or at the same
\* time; no request changes the adapter's api_key, client or model.
C8_SameRequestSameResponse ==
    /\ parser = InvoiceParser
    /\ \A r1 \in Requests, r2 \in Requests :
           Responded(r1) /\ Responded(r2) /\ image[r1] = image[r2] =>
               response[r1] = response[r2] /\ result[r1] = result[r2]

C8_Witness ==
    /\ Responded("r1") /\ Responded("r2")
    /\ image["r1"] = <<",", "Q", "Q", "=", "=">> /\ image["r2"] = image["r1"]
    /\ response["r1"] = response["r2"]

ResultWidgets == {"date", "table", "no_products", "image"}

\* C9: when the POST fails (no connection, the timeout, a status that is not
\* 2xx) the page shows the error and none of the results; results are
\* rendered only after a 2xx response.
C9_ErrorHaltsRendering ==
    /\ ui_pc = "stopped" => shown = <<"error">>
    /\ ui_pc \in {"stopped", "rendered", "crashed"} /\ ui_status # 200 =>
           ui_pc = "stopped"
    /\ (\E i \in 1..Len(shown) : shown[i] \in ResultWidgets) => ui_status = 200

C9_Witness ==
    ui_pc = "stopped" /\ ui_status = 500 /\ shown = <<"error">>

\* C10: a reply whose parsed value is falsy ({}, [], "", 0, false, null) is a
\* failure: extract_invoice returns None and the response is HTTP 500, so a
\* 200 body is never falsy; every other parsed value is returned as a success.
C10_FalsyParseIsFailure ==
    \A r \in Requests :
        /\ Responded(r) /\ reply[r].kind = "text" =>
               LET parsed == parse_json(reply[r].text)
               IN  IF parsed \in FalsyValues
                   THEN result[r] = None /\ response[r].status = 500
                   ELSE /\ result[r] = parsed
                        /\ response[r].status = 200
                        /\ response[r].body = parsed
        /\ response[r].status = 200 => response[r].body \notin FalsyValues

C10_Witness ==
    \E r \in Requests :
        /\ Responded(r)
        /\ reply[r] = TextReply(TrailingComma(Serialize(JObj(<<>>, <<>>))))
        /\ result[r] = None
        /\ response[r].status = 500

=============================================================================
